---- MODULE Spec2Model ----
(***************************************************************************)
(* Model of the memory subsystem of zhanlong9890/sqdlh:                    *)
(*   - AsyncMemoryManager   (src/记忆/async_memory_manager.{h,cpp}):       *)
(*     the write-back engine, its worker thread and its destructor;        *)
(*   - AdvancedMemoryManager (src/记忆/advanced_memory_manager.{h,cpp}):   *)
(*     the orchestrator's lifecycle, mutation API, search path, cache and  *)
(*     statistics.                                                         *)
(* Three specifications share the variables: SpecEngine (the engine used   *)
(* on its own), SpecOrch (lifecycle and mutation API over the engine) and  *)
(* SpecSearch (search, query cache and statistics).                        *)
(***************************************************************************)
EXTENDS Integers, Sequences, FiniteSets, TLC

----------------------------------------------------------------------------
(* Bounds of the model *)

\* addMemory calls that reach the engine
MaxAdds == 3
\* stands in for the program's batch size of 100 (see BATCH_SIZE)
BatchBound == 2
\* saveBatch calls that may meet a persistence failure
MaxFailures == 1
\* calls of the orchestrator's public API (start, stop, add, weight, cleanup)
MaxCalls == 3
\* searchMemories calls
MaxSearches == 3

----------------------------------------------------------------------------
(* Data model *)

\* enum MemoryType
Types == {"Short", "Mid", "Long"}

\* enum MemoryCategory, in enumeration order
Categories == <<"Work", "Family", "Friendship", "Happiness", "Other">>

\* static_cast<int>(item.category)
CategoryCode(c) == (CHOOSE i \in 1..Len(Categories) : Categories[i] = c) - 1

\* static const size_t BATCH_SIZE = 100, scaled down to BatchBound
BATCH_SIZE == BatchBound

\* Text contents are sequences of words; only the words matter to the code.
Contents == { <<"xiangmu", "jinzhan">>, <<"hello">> }

\* EventTypes::*
EventTypes == {"MEMORY_ADDED", "MEMORY_SEARCHED", "WEIGHT_UPDATED",
               "SYSTEM_STARTED", "SYSTEM_STOPPED"}

\* (content, type, category) argument triples handed to the engine's addMemory
EngineInputs ==
    { [content |-> <<"hello">>, type |-> "Short", category |-> "Other"],
      [content |-> <<"hello">>, type |-> "Mid", category |-> "Work"],
      [content |-> <<"xiangmu", "jinzhan">>, type |-> "Long", category |-> "Work"] }

\* MemoryItem{content, type, category, timestamp}; id is the item's identity
\* (the order of its creation), which the timestamp alone does not give.
MemoryItem(id, content, type, category) ==
    [id |-> id, content |-> content, type |-> type, category |-> category]

\* the line saveBatch writes for an item: content|category|timestamp
Line(item) ==
    [id |-> item.id, content |-> item.content, cat |-> CategoryCode(item.category)]

Min(a, b) == IF a < b THEN a ELSE b

RECURSIVE SelectIdx(_, _, _)
\* the elements s[i], i in 1..n, whose index satisfies keep, in order
SelectIdx(s, n, keep) ==
    IF n = 0 THEN <<>>
    ELSE IF n \in keep THEN Append(SelectIdx(s, n - 1, keep), s[n])
         ELSE SelectIdx(s, n - 1, keep)

Ids(s) == { s[i].id : i \in 1..Len(s) }

----------------------------------------------------------------------------
VARIABLES
    \* ---- AsyncMemoryManager ----
    store,          \* the base MemoryManager's in-memory collection
    baseSaved,      \* ids covered by the base store's last save()
    pendingWrites,  \* std::queue<MemoryItem> pendingWrites
    pendingMutex,   \* who holds pendingMutex across a step: "free", "worker", "saver"
    shouldStop,     \* std::atomic<bool> shouldStop
    isSavingFlag,   \* std::atomic<bool> isSavingFlag
    files,          \* the three destination files: type -> sequence of lines
    dropped,        \* ids drained into a batch and never written
    failures,       \* saveBatch calls that met a failure so far
    nextId,         \* identity of the next item created
    workerPc,       \* saveWorker: "loop", "wait", "locked", "drained", "saving",
                    \* "saved", "done"
    workerBatch,    \* saveWorker's local batch
    adderPc,        \* a caller inside addMemory: "idle", "push", "notify",
                    \* "async_save"
    adderItem,      \* its item
    saverPc,        \* a caller inside save(): "idle", "flush_write", "base_save", "save_ret"
    saverBatch,     \* flushPendingWrites' local batch
    saverSnap,      \* ids that were queued when save() was called
    saverOverlap,   \* an addMemory call overlapped the save() call
    dtorPc,         \* ~AsyncMemoryManager: "none", "join", "flush", "done"
    \* ---- AdvancedMemoryManager: lifecycle and mutation API ----
    orchPc,         \* "absent" (engine used alone), "live", "dtor_stop", "members"
    running_,       \* std::atomic<bool> running_
    maintPc,        \* backgroundWorker: "none" (no joinable thread), "check",
                    \* "iter", "sleep", "done" (returned, not yet joined)
    spawned,        \* maintenance threads started so far
    joined,         \* maintenance threads joined so far
    emRunning,      \* the EventManager is started
    emStarts,       \* eventManager_->start() calls
    emStops,        \* eventManager_->stop() calls
    published,      \* events published on the bus, counted per event type
    weights,        \* the WeightManager's records, per content
    callerPc,       \* the lifecycle caller: "idle", or "stop_join" inside stop()
    orchAddPc,      \* a caller inside addMemory/addMemoriesBatch: "idle", "next", "in_engine"
    orchAddQueue,   \* the (content, type, category) arguments it still has to add
    lastCall,       \* the public API call made last
    lastEffective,  \* whether that call got past its running_ test
    repeated,       \* whether it repeated the call made just before it
    stopSaw,        \* where the maintenance thread was when stop() was last called
    callCount,      \* public API calls made so far
    \* ---- AdvancedMemoryManager: search, query cache, statistics ----
    memoryCache_,   \* the LRU cache: <<[key, val]>>, most recently used first
    cacheSize_,     \* its capacity
    cacheHits_,     \* std::atomic<size_t> cacheHits_
    cacheMisses_,   \* std::atomic<size_t> cacheMisses_
    totalSearches_, \* std::atomic<size_t> totalSearches_
    totalSearchTime_, \* std::atomic<float> totalSearchTime_, in milliseconds
    searchPc,       \* per caller of searchMemories: "idle", "search", "put", "ret"
    searchQ,        \* its query
    searchMax,      \* its maxResults
    searchRes,      \* its result list
    searchHit,      \* its call was answered from the cache
    searchInvoked,  \* its call invoked the search path
    searchAlone,    \* no other searchMemories call or setCacheSize overlapped it
    searchBasis,    \* the call that returned just before it began, if any
    prevSearch,     \* the searchMemories call that returned last
    searchCalls,    \* searchMemories calls begun so far
    statsPc,        \* getSystemStatistics: "idle", "second", "rate", "ret"
    statsFirst,     \* which counter the sum loaded first
    statsAccess,    \* its local totalCacheAccess, as far as computed
    stats,          \* the SystemStatistics it builds
    \* ---- AdvancedMemoryManager: searchMemoriesBatch, one caller ----
    batchPc,        \* "idle", "loop", "collected", "ret"
    batchQueue,     \* the queries not yet searched, the current one first
    batchMax,       \* its maxResults
    batchAll,       \* allResults, as concatenated
    batchRes,       \* the list it returns
    \* ---- AdvancedMemoryManager: start() and stop() called by two threads ----
    lcPc,           \* per caller: "idle", "start_store", "start_em", "start_spawn",
                    \* "start_publish", "stop_store", "stop_joinable", "stop_join",
                    \* "stop_em", "stop_publish"
    lcTarget,       \* per caller: the maintenance thread its join() waits for
    bgPc,           \* per maintenance thread spawned by these callers: "none",
                    \* "check", "sleep", "done" (returned), "joined"
    backgroundThread_, \* the thread the member holds, 0 when it is not joinable
    aborted,        \* std::terminate was called
    round           \* the calls in flight: which call, from which state, and
                    \* the counts when the first of them began

engineVars == <<store, baseSaved, pendingWrites, pendingMutex, shouldStop,
                isSavingFlag, files, dropped, failures, nextId, workerPc,
                workerBatch, adderPc, adderItem, saverPc, saverBatch,
                saverSnap, saverOverlap, dtorPc>>

\* the orchestrator's state other than the event counts
orchCore == <<orchPc, running_, maintPc, spawned, joined, emRunning, emStarts,
              emStops, weights, callerPc, orchAddPc, orchAddQueue, lastCall,
              lastEffective, repeated, stopSaw, callCount>>

orchVars == <<orchCore, published>>

searchVars == <<memoryCache_, cacheSize_, cacheHits_, cacheMisses_,
                totalSearches_, totalSearchTime_, searchPc, searchQ, searchMax,
                searchRes, searchHit, searchInvoked, searchAlone, searchBasis,
                prevSearch, searchCalls, statsPc, statsFirst, statsAccess,
                stats>>

batchVars == <<batchPc, batchQueue, batchMax, batchAll, batchRes>>

lifeVars == <<lcPc, lcTarget, bgPc, backgroundThread_, aborted, round>>

vars == <<engineVars, orchVars, searchVars, batchVars, lifeVars>>

NoItem == [id |-> 0]

\* a WeightManager record: accesses recorded and the weight
NoRecord == [n |-> 0, w |-> 0]

\* AdvancedMemoryManager(): components built, handlers subscribed, not running
OrchInit(pc) ==
    /\ orchPc = pc
    /\ running_ = FALSE
    /\ maintPc = "none"
    /\ spawned = 0
    /\ joined = 0
    /\ emRunning = FALSE
    /\ emStarts = 0
    /\ emStops = 0
    /\ published = [e \in EventTypes |-> 0]
    /\ weights = [c \in Contents |-> NoRecord]
    /\ callerPc = "idle"
    /\ orchAddPc = "idle"
    /\ orchAddQueue = <<>>
    /\ lastCall = "none"
    /\ lastEffective = FALSE
    /\ repeated = FALSE
    /\ stopSaw = "none"
    /\ callCount = 0

\* threads that call searchMemories
Searchers == {"s1", "s2"}

\* the thread that searches where one caller is enough
MainSearchers == {"s1"}

\* query texts
Queries == {"q1", "q2"}

\* maxResults values handed to searchMemories
ResultLimits == {1, 2}

\* latencies, in milliseconds, one search can measure
Latencies == {0, 1}

\* capacities handed to setCacheSize
CacheSizes == {1}

\* no previous call
NoCall == [q |-> "", res |-> <<>>]

\* cacheSize_(1000) in the constructor's initialiser list
InitialCacheSize == 1000

NoStats == [totalMemories |-> 0, totalSearches |-> 0, averageSearchTime |-> 0,
            cacheHitRate |-> 0]

\* the cache, the counters and the statistics after construction
SearchInit ==
    /\ memoryCache_ = <<>>
    /\ cacheSize_ = InitialCacheSize
    /\ cacheHits_ = 0
    /\ cacheMisses_ = 0
    /\ totalSearches_ = 0
    /\ totalSearchTime_ = 0
    /\ searchPc = [t \in Searchers |-> "idle"]
    /\ searchQ = [t \in Searchers |-> ""]
    /\ searchMax = [t \in Searchers |-> 0]
    /\ searchRes = [t \in Searchers |-> <<>>]
    /\ searchHit = [t \in Searchers |-> FALSE]
    /\ searchInvoked = [t \in Searchers |-> FALSE]
    /\ searchAlone = [t \in Searchers |-> FALSE]
    /\ searchBasis = [t \in Searchers |-> NoCall]
    /\ prevSearch = NoCall
    /\ searchCalls = 0
    /\ statsPc = "idle"
    /\ statsFirst = "none"
    /\ statsAccess = 0
    /\ stats = NoStats

\* no searchMemoriesBatch call is in progress
BatchInit ==
    /\ batchPc = "idle"
    /\ batchQueue = <<>>
    /\ batchMax = 0
    /\ batchAll = <<>>
    /\ batchRes = <<>>

\* threads that call start() and stop()
LifecycleCallers == {"a", "b"}

\* the maintenance threads these callers can spawn, in spawning order
BgThreads == 1..MaxCalls

\* no start() or stop() call is in progress, no maintenance thread exists
LifeInit ==
    /\ lcPc = [t \in LifecycleCallers |-> "idle"]
    /\ lcTarget = [t \in LifecycleCallers |-> 0]
    /\ bgPc = [i \in BgThreads |-> "none"]
    /\ backgroundThread_ = 0
    /\ aborted = FALSE
    /\ round = [op |-> "none", from |-> "Other", clean |-> FALSE,
                spawnedAt |-> 0, joinedAt |-> 0, startedAt |-> 0,
                stoppedAt |-> 0]

\* AsyncMemoryManager(): the base store is constructed, the worker is started
EngineInit ==
    /\ store = <<>>
    /\ baseSaved = {}
    /\ pendingWrites = <<>>
    /\ pendingMutex = "free"
    /\ shouldStop = FALSE
    /\ isSavingFlag = FALSE
    /\ files = [t \in Types |-> <<>>]
    /\ dropped = {}
    /\ failures = 0
    /\ nextId = 1
    /\ workerPc = "loop"
    /\ workerBatch = <<>>
    /\ adderPc = "idle"
    /\ adderItem = NoItem
    /\ saverPc = "idle"
    /\ saverBatch = <<>>
    /\ saverSnap = {}
    /\ saverOverlap = FALSE
    /\ dtorPc = "none"

----------------------------------------------------------------------------
(* saveBatch and the drain loops *)

\* getPendingBatch as it would be if the loop popped one item fewer than it copied
getPendingBatchKeepsLast(q) ==
    LET n == Min(Len(q), BATCH_SIZE)
    IN  [batch |-> SubSeq(q, 1, n),
         rest  |-> IF n = 0 THEN q ELSE SubSeq(q, n, Len(q))]

\* getPendingBatch: move up to BATCH_SIZE oldest items out of the queue
getPendingBatch(q) ==
    LET n == Min(Len(q), BATCH_SIZE)
    IN  [batch |-> SubSeq(q, 1, n), rest |-> SubSeq(q, n + 1, Len(q))]

\* the drain loop of flushPendingWrites as it would be if it popped one item
\* more than it copied
flushDrainLosesOne(q) ==
    LET n == Min(Len(q), BATCH_SIZE)
    IN  [batch |-> SubSeq(q, 1, n),
         rest  |-> IF n < Len(q) THEN SubSeq(q, n + 2, Len(q)) ELSE <<>>]

\* the drain loop of flushPendingWrites: one batch of up to BATCH_SIZE items
flushDrain(q) ==
    LET n == Min(Len(q), BATCH_SIZE)
    IN  [batch |-> SubSeq(q, 1, n), rest |-> SubSeq(q, n + 1, Len(q))]

\* What one saveBatch call can meet: ok is the set of types whose stream
\* opened (a stream that failed to open swallows its lines), at is the number
\* of items handled before an exception ends the loop (Len(batch): none).
IoClean(batch) == [ok |-> Types, at |-> Len(batch)]

IoOutcomes(batch) ==
    {IoClean(batch)} \cup
    (IF failures < MaxFailures
     THEN { [ok |-> Types \ {t}, at |-> Len(batch)] : t \in Types }
          \cup { [ok |-> Types, at |-> k] : k \in 0..(Len(batch) - 1) }
     ELSE {})

\* saveBatch as it would be if one failed stream made it write nothing
WrittenIdxAllOrNothing(batch, io) ==
    IF io.ok = Types THEN { i \in 1..Len(batch) : i <= io.at } ELSE {}

\* indexes of the batch whose line reaches its file
WrittenIdx(batch, io) ==
    { i \in 1..Len(batch) : i <= io.at /\ batch[i].type \in io.ok }

\* saveBatch: append each item's line to the file of its type, in batch order
saveBatch(fs, batch, io) ==
    [t \in Types |->
        fs[t] \o SelectIdx([i \in 1..Len(batch) |-> Line(batch[i])], Len(batch),
                           { i \in WrittenIdx(batch, io) : batch[i].type = t })]

\* ids of the batch that no file received
LostIds(batch, io) ==
    { batch[i].id : i \in (1..Len(batch)) \ WrittenIdx(batch, io) }

\* the effect of one saveBatch call on the files and the failure record
DoSaveBatch(batch, io) ==
    /\ files' = saveBatch(files, batch, io)
    /\ dropped' = dropped \cup LostIds(batch, io)
    /\ failures' = IF io = IoClean(batch) THEN failures ELSE failures + 1

----------------------------------------------------------------------------
(* AsyncMemoryManager::addMemory, one caller at a time *)

\* MemoryManager::addMemory and the construction of the queued item
AddBaseEffect(in) ==
    /\ adderPc = "idle"
    /\ nextId <= MaxAdds
    /\ adderItem' = MemoryItem(nextId, in.content, in.type, in.category)
    /\ store' = Append(store, adderItem')
    /\ nextId' = nextId + 1
    /\ adderPc' = "push"
    /\ saverOverlap' = (saverOverlap \/ saverPc # "idle")
    /\ UNCHANGED <<baseSaved, pendingWrites, pendingMutex, shouldStop,
                   isSavingFlag, files, dropped, failures, workerPc,
                   workerBatch, saverPc, saverBatch, saverSnap, dtorPc>>

\* AsyncMemoryManager::addMemory called on the engine directly
AddBase(in) ==
    /\ dtorPc = "none"
    /\ orchPc = "absent"
    /\ AddBaseEffect(in)
    /\ UNCHANGED <<orchVars, searchVars, batchVars, lifeVars>>

\* { lock_guard; pendingWrites.push(item); }
AddPush ==
    /\ adderPc = "push"
    /\ pendingMutex = "free"
    /\ pendingWrites' = Append(pendingWrites, adderItem)
    /\ adderPc' = "notify"
    /\ saverOverlap' = (saverOverlap \/ saverPc # "idle")
    /\ UNCHANGED <<store, baseSaved, pendingMutex, shouldStop, isSavingFlag,
                   files, dropped, failures, nextId, workerPc, workerBatch,
                   adderItem, saverPc, saverBatch, saverSnap, dtorPc>>
    /\ UNCHANGED <<orchVars, searchVars, batchVars, lifeVars>>

\* What pendingWrites.size() can return to addMemory, which reads it without
\* the lock: the length of the queue, or, while the worker is inside
\* getPendingBatch popping items, any length the queue passes through.
SizeReads ==
    IF workerPc = "locked" /\ ~shouldStop
    THEN Len(getPendingBatch(pendingWrites).rest)..Len(pendingWrites)
    ELSE {Len(pendingWrites)}

\* notify_one, then the size test: asyncSave is called when the size read is
\* at least BATCH_SIZE
AddNotify(n) ==
    /\ adderPc = "notify"
    /\ n \in SizeReads
    /\ IF n >= BATCH_SIZE
       THEN /\ adderPc' = "async_save"
            /\ UNCHANGED adderItem
       ELSE /\ adderPc' = "idle"
            /\ adderItem' = NoItem
    /\ UNCHANGED <<store, baseSaved, pendingWrites, pendingMutex, shouldStop,
                   isSavingFlag, files, dropped, failures, nextId, workerPc,
                   workerBatch, saverPc, saverBatch, saverSnap, saverOverlap,
                   dtorPc>>
    /\ UNCHANGED <<orchVars, searchVars, batchVars, lifeVars>>

\* asyncSave(): saveCondition.notify_one(), then addMemory returns
AsyncSave ==
    /\ adderPc = "async_save"
    /\ adderPc' = "idle"
    /\ adderItem' = NoItem
    /\ UNCHANGED <<store, baseSaved, pendingWrites, pendingMutex, shouldStop,
                   isSavingFlag, files, dropped, failures, nextId, workerPc,
                   workerBatch, saverPc, saverBatch, saverSnap, saverOverlap,
                   dtorPc>>
    /\ UNCHANGED <<orchVars, searchVars, batchVars, lifeVars>>

\* the rest of addMemory after the push
AddSignal ==
    \/ \E n \in 0..MaxAdds : AddNotify(n)
    \/ AsyncSave

----------------------------------------------------------------------------
(* AsyncMemoryManager::saveWorker *)

\* while (!shouldStop.load())
WorkerLoop ==
    /\ workerPc = "loop"
    /\ workerPc' = IF shouldStop THEN "done" ELSE "wait"
    /\ UNCHANGED <<store, baseSaved, pendingWrites, pendingMutex, shouldStop,
                   isSavingFlag, files, dropped, failures, nextId, workerBatch,
                   adderPc, adderItem, saverPc, saverBatch, saverSnap,
                   saverOverlap, dtorPc>>
    /\ UNCHANGED <<orchVars, searchVars, batchVars, lifeVars>>

\* the wait predicate as it would be if it ignored the queue
waitPredicateStopOnly == shouldStop

\* [this] { return !pendingWrites.empty() || shouldStop.load(); }
waitPredicate == pendingWrites # <<>> \/ shouldStop

\* wait_for returns holding the lock: its predicate holds, or it timed out
WorkerLock(timedOut) ==
    /\ workerPc = "wait"
    /\ pendingMutex = "free"
    /\ timedOut \/ waitPredicate
    /\ pendingMutex' = "worker"
    /\ workerPc' = "locked"
    /\ UNCHANGED <<store, baseSaved, pendingWrites, shouldStop, isSavingFlag,
                   files, dropped, failures, nextId, workerBatch, adderPc,
                   adderItem, saverPc, saverBatch, saverSnap, saverOverlap,
                   dtorPc>>
    /\ UNCHANGED <<orchVars, searchVars, batchVars, lifeVars>>

\* break on shouldStop, else getPendingBatch and unlock
WorkerWake ==
    /\ workerPc = "locked"
    /\ IF shouldStop
       THEN /\ workerPc' = "done"
            /\ UNCHANGED <<pendingWrites, workerBatch>>
       ELSE LET d == getPendingBatch(pendingWrites)
            IN  /\ workerBatch' = d.batch
                /\ pendingWrites' = d.rest
                /\ workerPc' = IF d.batch = <<>> THEN "loop" ELSE "drained"
    /\ pendingMutex' = "free"
    /\ UNCHANGED <<store, baseSaved, shouldStop, isSavingFlag,
                   files, dropped, failures, nextId, adderPc, adderItem,
                   saverPc, saverBatch, saverSnap, saverOverlap, dtorPc>>
    /\ UNCHANGED <<orchVars, searchVars, batchVars, lifeVars>>

\* isSavingFlag.store(true)
WorkerBeginSave ==
    /\ workerPc = "drained"
    /\ isSavingFlag' = TRUE
    /\ workerPc' = "saving"
    /\ UNCHANGED <<store, baseSaved, pendingWrites, pendingMutex, shouldStop,
                   files, dropped, failures, nextId, workerBatch, adderPc,
                   adderItem, saverPc, saverBatch, saverSnap, saverOverlap,
                   dtorPc>>
    /\ UNCHANGED <<orchVars, searchVars, batchVars, lifeVars>>

\* saveBatch(batch), outside the lock
WorkerSaveBatch(io) ==
    /\ workerPc = "saving"
    /\ DoSaveBatch(workerBatch, io)
    /\ workerBatch' = <<>>
    /\ workerPc' = "saved"
    /\ UNCHANGED <<store, baseSaved, pendingWrites, pendingMutex, shouldStop,
                   isSavingFlag, nextId, adderPc, adderItem, saverPc,
                   saverBatch, saverSnap, saverOverlap, dtorPc>>
    /\ UNCHANGED <<orchVars, searchVars, batchVars, lifeVars>>

\* isSavingFlag.store(false)
WorkerEndSave ==
    /\ workerPc = "saved"
    /\ isSavingFlag' = FALSE
    /\ workerPc' = "loop"
    /\ UNCHANGED <<store, baseSaved, pendingWrites, pendingMutex, shouldStop,
                   files, dropped, failures, nextId, workerBatch, adderPc,
                   adderItem, saverPc, saverBatch, saverSnap, saverOverlap,
                   dtorPc>>
    /\ UNCHANGED <<orchVars, searchVars, batchVars, lifeVars>>

----------------------------------------------------------------------------
(* AsyncMemoryManager::save, one caller at a time *)

\* save() enters flushPendingWrites: lock, return if empty, else drain a batch
SaveCall ==
    /\ dtorPc = "none"
    /\ saverPc = "idle"
    /\ pendingMutex = "free"
    /\ saverSnap' = Ids(pendingWrites)
    /\ saverOverlap' = (adderPc # "idle")
    /\ IF pendingWrites = <<>>
       THEN /\ saverPc' = "base_save"
            /\ UNCHANGED <<pendingWrites, pendingMutex, saverBatch>>
       ELSE LET d == flushDrain(pendingWrites)
            IN  /\ saverBatch' = d.batch
                /\ pendingWrites' = d.rest
                /\ pendingMutex' = "saver"
                /\ saverPc' = "flush_write"
    /\ UNCHANGED <<store, baseSaved, shouldStop, isSavingFlag, files, dropped,
                   failures, nextId, workerPc, workerBatch, adderPc, adderItem,
                   dtorPc>>
    /\ UNCHANGED <<orchVars, searchVars, batchVars, lifeVars>>

\* saveBatch(batch) under the lock, then the lock_guard releases
FlushWrite(io) ==
    /\ saverPc = "flush_write"
    /\ DoSaveBatch(saverBatch, io)
    /\ saverBatch' = <<>>
    /\ pendingMutex' = "free"
    /\ saverPc' = "base_save"
    /\ UNCHANGED <<store, baseSaved, pendingWrites, shouldStop, isSavingFlag,
                   nextId, workerPc, workerBatch, adderPc, adderItem,
                   saverSnap, saverOverlap, dtorPc>>
    /\ UNCHANGED <<orchVars, searchVars, batchVars, lifeVars>>

\* MemoryManager::save(): the base store flushes its own collection
BaseSave ==
    /\ saverPc = "base_save"
    /\ baseSaved' = Ids(store)
    /\ saverPc' = "save_ret"
    /\ UNCHANGED <<store, pendingWrites, pendingMutex, shouldStop,
                   isSavingFlag, files, dropped, failures, nextId, workerPc,
                   workerBatch, adderPc, adderItem, saverBatch, saverSnap,
                   saverOverlap, dtorPc>>
    /\ UNCHANGED <<orchVars, searchVars, batchVars, lifeVars>>

\* save() has returned to its caller
SaveReturn ==
    /\ saverPc = "save_ret"
    /\ saverPc' = "idle"
    /\ saverSnap' = {}
    /\ saverOverlap' = FALSE
    /\ UNCHANGED <<store, baseSaved, pendingWrites, pendingMutex, shouldStop,
                   isSavingFlag, files, dropped, failures, nextId, workerPc,
                   workerBatch, adderPc, adderItem, saverBatch, dtorPc>>
    /\ UNCHANGED <<orchVars, searchVars, batchVars, lifeVars>>

----------------------------------------------------------------------------
(* AsyncMemoryManager::~AsyncMemoryManager, once no call is in progress *)

\* shouldStop.store(true); saveCondition.notify_all()
DtorStop ==
    /\ dtorPc = "none"
    /\ orchPc \in {"absent", "members"}
    /\ adderPc = "idle"
    /\ saverPc = "idle"
    /\ shouldStop' = TRUE
    /\ dtorPc' = "join"
    /\ UNCHANGED <<store, baseSaved, pendingWrites, pendingMutex, isSavingFlag,
                   files, dropped, failures, nextId, workerPc, workerBatch,
                   adderPc, adderItem, saverPc, saverBatch, saverSnap,
                   saverOverlap>>
    /\ UNCHANGED <<orchVars, searchVars, batchVars, lifeVars>>

\* saveThread.join()
DtorJoin ==
    /\ dtorPc = "join"
    /\ workerPc = "done"
    /\ dtorPc' = "flush"
    /\ UNCHANGED <<store, baseSaved, pendingWrites, pendingMutex, shouldStop,
                   isSavingFlag, files, dropped, failures, nextId, workerPc,
                   workerBatch, adderPc, adderItem, saverPc, saverBatch,
                   saverSnap, saverOverlap>>
    /\ UNCHANGED <<orchVars, searchVars, batchVars, lifeVars>>

\* flushPendingWrites(), with no other thread left
DtorFlush(io) ==
    /\ dtorPc = "flush"
    /\ pendingMutex = "free"
    /\ IF pendingWrites = <<>>
       THEN /\ io = IoClean(<<>>)
            /\ UNCHANGED <<pendingWrites, files, dropped, failures>>
       ELSE LET d == flushDrain(pendingWrites)
            IN  /\ pendingWrites' = d.rest
                /\ DoSaveBatch(d.batch, io)
    /\ dtorPc' = "done"
    /\ UNCHANGED <<store, baseSaved, pendingMutex, shouldStop, isSavingFlag,
                   nextId, workerPc, workerBatch, adderPc, adderItem, saverPc,
                   saverBatch, saverSnap, saverOverlap>>
    /\ UNCHANGED <<orchVars, searchVars, batchVars, lifeVars>>

----------------------------------------------------------------------------
(* The engine on its own *)

\* the worker, with the persistence failures the bounds allow
WorkerNext ==
    \/ WorkerLoop
    \/ \E timedOut \in BOOLEAN : WorkerLock(timedOut)
    \/ WorkerWake
    \/ WorkerBeginSave
    \/ \E io \in IoOutcomes(workerBatch) : WorkerSaveBatch(io)
    \/ WorkerEndSave

\* the worker over files that never fail
WorkerNextClean ==
    \/ WorkerLoop
    \/ \E timedOut \in BOOLEAN : WorkerLock(timedOut)
    \/ WorkerWake
    \/ WorkerBeginSave
    \/ WorkerSaveBatch(IoClean(workerBatch))
    \/ WorkerEndSave

DtorNext ==
    \/ DtorStop
    \/ DtorJoin
    \/ \E io \in IoOutcomes(flushDrain(pendingWrites).batch) : DtorFlush(io)

DtorNextClean ==
    \/ DtorStop
    \/ DtorJoin
    \/ DtorFlush(IoClean(flushDrain(pendingWrites).batch))

EngineNext ==
    \/ \E in \in EngineInputs : AddBase(in)
    \/ AddPush
    \/ AddSignal
    \/ SaveCall
    \/ \E io \in IoOutcomes(saverBatch) : FlushWrite(io)
    \/ BaseSave
    \/ SaveReturn
    \/ WorkerNext
    \/ DtorNext

\* the worker when SAVE_INTERVAL never elapses: it wakes by its predicate only
WorkerNextSignalled ==
    \/ WorkerLoop
    \/ WorkerLock(FALSE)
    \/ WorkerWake
    \/ WorkerBeginSave
    \/ WorkerSaveBatch(IoClean(workerBatch))
    \/ WorkerEndSave

\* addMemory calls and the worker: no save(), no destructor, no timer
ThresholdNext ==
    \/ \E in \in EngineInputs : AddBase(in)
    \/ AddPush
    \/ AddSignal
    \/ WorkerNextSignalled

\* an AsyncMemoryManager constructed on its own
InitEngine == EngineInit /\ OrchInit("absent") /\ SearchInit /\ BatchInit /\ LifeInit

SpecEngine == InitEngine /\ [][EngineNext]_vars

\* the worker thread is scheduled whenever it can run
SpecThreshold ==
    InitEngine /\ [][ThresholdNext]_vars /\ WF_vars(WorkerNextSignalled)

----------------------------------------------------------------------------
(* Collaborators of the orchestrator *)

\* EventBus::publish
publish(e) == [published EXCEPT ![e] = @ + 1]

\* WeightManager::recordAccess
recordAccess(ws, c) == [ws EXCEPT ![c].n = @ + 1]

\* WeightManager::updateMemoryWeight
updateMemoryWeight(ws, c, w) == [ws EXCEPT ![c].w = w]

\* WeightManager::cleanupExpiredData: the records of the contents in E expired
cleanupExpiredData(ws, E) == [c \in Contents |-> IF c \in E THEN NoRecord ELSE ws[c]]

\* WeightManager::updateWeights: the weights of the stored contents decay
updateWeights(ws, memories) ==
    [c \in Contents |->
        IF \E i \in 1..Len(memories) : memories[i].content = c
        THEN [ws[c] EXCEPT !.w = IF @ > 0 THEN @ - 1 ELSE 0]
        ELSE ws[c]]

\* weights a caller passes to updateMemoryWeight
WeightInputs == {0, 1}

\* (content, type, category) triples handed to the orchestrator's addMemory
OrchInputs ==
    { [content |-> <<"xiangmu", "jinzhan">>, type |-> "Short", category |-> "Other"],
      [content |-> <<"hello">>, type |-> "Long", category |-> "Family"] }

\* lists handed to addMemoriesBatch
BatchInputs ==
    { << [content |-> <<"hello">>, type |-> "Mid"] >>,
      << [content |-> <<"xiangmu", "jinzhan">>, type |-> "Short"],
         [content |-> <<"hello">>, type |-> "Short"] >> }

HasWord(content, ws) == \E i \in 1..Len(content) : content[i] \in ws

\* classifyMemory: the first category one of whose keywords occurs in the text
classifyMemory(content) ==
    IF HasWord(content, {"gongzuo", "xiangmu"}) THEN "Work"
    ELSE IF HasWord(content, {"jiating", "fumu"}) THEN "Family"
    ELSE IF HasWord(content, {"pengyou", "juhui"}) THEN "Friendship"
    ELSE IF HasWord(content, {"kaixin", "gaoxing"}) THEN "Happiness"
    ELSE "Other"

\* a public call is made on a live orchestrator
CanCall == orchPc = "live" /\ callCount < MaxCalls

\* bookkeeping of the call made
Called(name, effective) ==
    /\ lastCall' = name
    /\ lastEffective' = effective
    /\ repeated' = (lastCall = name)
    /\ callCount' = callCount + 1

----------------------------------------------------------------------------
(* AdvancedMemoryManager::start and ::stop, one lifecycle caller *)

\* start() as it would be without its running_ test
startNeverReturnsEarly == FALSE

\* if (running_.load()) return;
startReturnsEarly == running_

Start ==
    /\ CanCall
    /\ callerPc = "idle"
    /\ IF startReturnsEarly
       THEN /\ Called("start", FALSE)
            /\ UNCHANGED <<running_, emRunning, emStarts, maintPc, spawned, published>>
       ELSE /\ Called("start", TRUE)
            /\ running_' = TRUE
            /\ emRunning' = TRUE
            /\ emStarts' = emStarts + 1
            /\ maintPc' = "check"
            /\ spawned' = spawned + 1
            /\ published' = publish("SYSTEM_STARTED")
    /\ UNCHANGED <<orchPc, joined, emStops, weights, callerPc, orchAddPc,
                   orchAddQueue, stopSaw>>
    /\ UNCHANGED <<engineVars, searchVars, batchVars, lifeVars>>

\* if (!running_.load()) return;
stopReturnsEarly == ~running_

\* stop() up to running_.store(false)
StopCallEffect ==
    /\ callerPc = "idle"
    /\ stopSaw' = maintPc
    /\ IF stopReturnsEarly
       THEN /\ Called("stop", FALSE)
            /\ UNCHANGED <<running_, callerPc>>
       ELSE /\ Called("stop", TRUE)
            /\ running_' = FALSE
            /\ callerPc' = "stop_join"
    /\ UNCHANGED <<maintPc, spawned, joined, emRunning, emStarts, emStops,
                   published, weights, orchAddPc, orchAddQueue>>

StopCall ==
    /\ CanCall
    /\ StopCallEffect
    /\ UNCHANGED orchPc
    /\ UNCHANGED <<engineVars, searchVars, batchVars, lifeVars>>

\* stop() as it would be without the join of the maintenance thread
stopSkipsJoin == FALSE

\* if (backgroundThread_.joinable()) backgroundThread_.join();
stopJoins == maintPc # "none"

\* the rest of stop(): join, eventManager_->stop(), publish SYSTEM_STOPPED
StopJoin ==
    /\ callerPc = "stop_join"
    /\ IF stopJoins
       THEN /\ maintPc = "done"
            /\ maintPc' = "none"
            /\ joined' = joined + 1
       ELSE UNCHANGED <<maintPc, joined>>
    /\ emRunning' = FALSE
    /\ emStops' = emStops + 1
    /\ published' = publish("SYSTEM_STOPPED")
    /\ callerPc' = "idle"
    /\ UNCHANGED <<orchPc, running_, spawned, emStarts, weights, orchAddPc,
                   orchAddQueue, lastCall, lastEffective, repeated, stopSaw,
                   callCount>>
    /\ UNCHANGED <<engineVars, searchVars, batchVars, lifeVars>>

\* ~AdvancedMemoryManager calls stop()
OrchDtor ==
    /\ orchPc = "live"
    /\ orchAddPc = "idle"
    /\ StopCallEffect
    /\ orchPc' = "dtor_stop"
    /\ UNCHANGED <<engineVars, searchVars, batchVars, lifeVars>>

\* stop() has returned: the members are destroyed, asyncManager_ last
OrchDtorMembers ==
    /\ orchPc = "dtor_stop"
    /\ callerPc = "idle"
    /\ orchPc' = "members"
    /\ UNCHANGED <<running_, maintPc, spawned, joined, emRunning, emStarts,
                   emStops, weights, callerPc, orchAddPc, orchAddQueue,
                   lastCall, lastEffective, repeated, stopSaw, callCount,
                   published>>
    /\ UNCHANGED <<engineVars, searchVars, batchVars, lifeVars>>

----------------------------------------------------------------------------
(* AdvancedMemoryManager::backgroundWorker *)

\* while (running_.load())
MaintCheck ==
    /\ maintPc = "check"
    /\ maintPc' = IF running_ THEN "iter" ELSE "done"
    /\ UNCHANGED <<orchPc, running_, spawned, joined, emRunning, emStarts,
                   emStops, weights, callerPc, orchAddPc, orchAddQueue,
                   lastCall, lastEffective, repeated, stopSaw, callCount,
                   published>>
    /\ UNCHANGED <<engineVars, searchVars, batchVars, lifeVars>>

\* one iteration: cleanupExpiredMemories, updateWeights over getAllMemories,
\* then the sleep; an exception (thrown by "cleanup" or by "update") is
\* caught and skips what follows it, the sleep included
MaintIter(E, thrownBy) ==
    /\ maintPc = "iter"
    /\ weights' =
         CASE thrownBy = "cleanup" -> weights
           [] thrownBy = "update" -> cleanupExpiredData(weights, E)
           [] OTHER -> IF store = <<>>
                       THEN cleanupExpiredData(weights, E)
                       ELSE updateWeights(cleanupExpiredData(weights, E), store)
    /\ maintPc' = IF thrownBy = "none" THEN "sleep" ELSE "check"
    /\ UNCHANGED <<orchPc, running_, spawned, joined, emRunning, emStarts,
                   emStops, callerPc, orchAddPc, orchAddQueue, lastCall,
                   lastEffective, repeated, stopSaw, callCount, published>>
    /\ UNCHANGED <<engineVars, searchVars, batchVars, lifeVars>>

\* sleep_for(5 minutes) elapses
MaintWake ==
    /\ maintPc = "sleep"
    /\ maintPc' = "check"
    /\ UNCHANGED <<orchPc, running_, spawned, joined, emRunning, emStarts,
                   emStops, weights, callerPc, orchAddPc, orchAddQueue,
                   lastCall, lastEffective, repeated, stopSaw, callCount,
                   published>>
    /\ UNCHANGED <<engineVars, searchVars, batchVars, lifeVars>>

----------------------------------------------------------------------------
(* The orchestrator's mutation API *)

\* addMemory(content, type, category) is called
OrchAddMemoryCall(in) ==
    /\ CanCall
    /\ orchAddPc = "idle"
    /\ nextId <= MaxAdds
    /\ orchAddQueue' = <<in>>
    /\ orchAddPc' = "next"
    /\ Called("addMemory", running_)
    /\ UNCHANGED <<orchPc, running_, maintPc, spawned, joined, emRunning,
                   emStarts, emStops, weights, callerPc, stopSaw, published>>
    /\ UNCHANGED <<engineVars, searchVars, batchVars, lifeVars>>

\* addMemoriesBatch(memories) is called: addMemory(content, type, Other) each
OrchAddBatchCall(list) ==
    /\ CanCall
    /\ orchAddPc = "idle"
    /\ nextId + Len(list) <= MaxAdds + 1
    /\ orchAddQueue' = [i \in 1..Len(list) |->
                          [content |-> list[i].content, type |-> list[i].type,
                           category |-> "Other"]]
    /\ orchAddPc' = "next"
    /\ Called("addMemoriesBatch", running_)
    /\ UNCHANGED <<orchPc, running_, maintPc, spawned, joined, emRunning,
                   emStarts, emStops, weights, callerPc, stopSaw, published>>
    /\ UNCHANGED <<engineVars, searchVars, batchVars, lifeVars>>

\* addMemory up to asyncManager_->addMemory: the running_ test (a refused
\* call returns), the classification, the base store's add
OrchAddNext ==
    /\ orchAddPc = "next"
    /\ IF orchAddQueue = <<>>
       THEN /\ orchAddPc' = "idle"
            /\ UNCHANGED <<orchAddQueue, engineVars>>
       ELSE IF ~running_
       THEN /\ orchAddQueue' = Tail(orchAddQueue)
            /\ UNCHANGED <<orchAddPc, engineVars>>
       ELSE LET in == Head(orchAddQueue)
                cat == IF in.category = "Other"
                       THEN classifyMemory(in.content) ELSE in.category
            IN  /\ AddBaseEffect([in EXCEPT !.category = cat])
                /\ orchAddPc' = "in_engine"
                /\ UNCHANGED orchAddQueue
    /\ UNCHANGED <<orchPc, running_, maintPc, spawned, joined, emRunning,
                   emStarts, emStops, weights, callerPc, lastCall,
                   lastEffective, repeated, stopSaw, callCount, published>>
    /\ UNCHANGED <<searchVars, batchVars, lifeVars>>

\* the engine's addMemory has returned: recordAccess, publish MEMORY_ADDED
OrchAddFinish ==
    /\ orchAddPc = "in_engine"
    /\ adderPc = "idle"
    /\ weights' = recordAccess(weights, Head(orchAddQueue).content)
    /\ published' = publish("MEMORY_ADDED")
    /\ orchAddQueue' = Tail(orchAddQueue)
    /\ orchAddPc' = "next"
    /\ UNCHANGED <<orchPc, running_, maintPc, spawned, joined, emRunning,
                   emStarts, emStops, callerPc, lastCall, lastEffective,
                   repeated, stopSaw, callCount>>
    /\ UNCHANGED <<engineVars, searchVars, batchVars, lifeVars>>

\* updateMemoryWeight(content, weight)
UpdateMemoryWeight(c, w) ==
    /\ CanCall
    /\ weights' = updateMemoryWeight(weights, c, w)
    /\ published' = publish("WEIGHT_UPDATED")
    /\ Called("updateMemoryWeight", TRUE)
    /\ UNCHANGED <<orchPc, running_, maintPc, spawned, joined, emRunning,
                   emStarts, emStops, callerPc, orchAddPc, orchAddQueue,
                   stopSaw>>
    /\ UNCHANGED <<engineVars, searchVars, batchVars, lifeVars>>

\* recordMemoryAccess(content)
RecordMemoryAccess(c) ==
    /\ CanCall
    /\ weights' = recordAccess(weights, c)
    /\ Called("recordMemoryAccess", TRUE)
    /\ UNCHANGED <<orchPc, running_, maintPc, spawned, joined, emRunning,
                   emStarts, emStops, callerPc, orchAddPc, orchAddQueue,
                   stopSaw, published>>
    /\ UNCHANGED <<engineVars, searchVars, batchVars, lifeVars>>

\* cleanupExpiredMemories(), called on demand (semanticSearch_ is null)
CleanupExpiredMemories(E) ==
    /\ CanCall
    /\ weights' = cleanupExpiredData(weights, E)
    /\ Called("cleanupExpiredMemories", TRUE)
    /\ UNCHANGED <<orchPc, running_, maintPc, spawned, joined, emRunning,
                   emStarts, emStops, callerPc, orchAddPc, orchAddQueue,
                   stopSaw, published>>
    /\ UNCHANGED <<engineVars, searchVars, batchVars, lifeVars>>

----------------------------------------------------------------------------
(* The orchestrator over the engine *)

LifecycleNext ==
    \/ Start
    \/ StopCall
    \/ StopJoin
    \/ OrchDtor
    \/ OrchDtorMembers

MaintNext ==
    \/ MaintCheck
    \/ \E E \in SUBSET Contents, thrownBy \in {"none", "cleanup", "update"} :
          MaintIter(E, thrownBy)
    \/ MaintWake

MutationNext ==
    \/ \E in \in OrchInputs : OrchAddMemoryCall(in)
    \/ \E list \in BatchInputs : OrchAddBatchCall(list)
    \/ OrchAddNext
    \/ AddPush
    \/ AddSignal
    \/ OrchAddFinish
    \/ \E c \in Contents, w \in WeightInputs : UpdateMemoryWeight(c, w)
    \/ \E c \in Contents : RecordMemoryAccess(c)
    \/ \E E \in SUBSET Contents : CleanupExpiredMemories(E)

OrchNext ==
    \/ LifecycleNext
    \/ MaintNext
    \/ MutationNext
    \/ WorkerNextClean
    \/ DtorNextClean

\* an AdvancedMemoryManager after its constructor
InitOrch == EngineInit /\ OrchInit("live") /\ SearchInit /\ BatchInit /\ LifeInit

SpecOrch == InitOrch /\ [][OrchNext]_vars

----------------------------------------------------------------------------
(* AdvancedMemoryManager::start and ::stop called by two threads: each
   statement of the two functions is a step of its caller *)

\* what start() and stop() do not touch
LcFrame ==
    /\ UNCHANGED <<orchPc, maintPc, weights, callerPc, orchAddPc, orchAddQueue,
                   lastCall, lastEffective, repeated, stopSaw>>
    /\ UNCHANGED <<engineVars, searchVars, batchVars>>

LcCanStep == orchPc = "live" /\ ~aborted

AllIdle == \A t \in LifecycleCallers : lcPc[t] = "idle"

\* the lifecycle state when no call is in flight; LiveBg is the maintenance
\* threads that exist and were not joined
LifecycleState ==
    LET LiveBg == { i \in BgThreads : bgPc[i] \notin {"none", "joined"} }
    IN  IF ~running_ /\ backgroundThread_ = 0 /\ LiveBg = {} THEN "Stopped"
        ELSE IF running_ /\ backgroundThread_ # 0 /\ LiveBg = {backgroundThread_}
        THEN "Running"
        ELSE "Other"

\* a call of op begins: it opens a round when no call is in flight, and joins
\* the round in flight otherwise
RoundAtCall(op) ==
    IF AllIdle
    THEN [op |-> op, from |-> LifecycleState, clean |-> TRUE,
          spawnedAt |-> spawned, joinedAt |-> joined,
          startedAt |-> published["SYSTEM_STARTED"],
          stoppedAt |-> published["SYSTEM_STOPPED"]]
    ELSE [round EXCEPT !.clean = round.clean /\ round.op = op]

\* start() l.233-235: if (running_.load()) return;
LcStartCall(t) ==
    /\ LcCanStep
    /\ lcPc[t] = "idle"
    /\ callCount < MaxCalls
    /\ callCount' = callCount + 1
    /\ round' = RoundAtCall("start")
    /\ lcPc' = [lcPc EXCEPT ![t] = IF running_ THEN "idle" ELSE "start_store"]
    /\ UNCHANGED <<running_, spawned, joined, emRunning, emStarts, emStops,
                   published, lcTarget, bgPc, backgroundThread_, aborted>>
    /\ LcFrame

\* start() l.237: running_.store(true);
LcStartStore(t) ==
    /\ LcCanStep
    /\ lcPc[t] = "start_store"
    /\ running_' = TRUE
    /\ lcPc' = [lcPc EXCEPT ![t] = "start_em"]
    /\ UNCHANGED <<spawned, joined, emRunning, emStarts, emStops, published,
                   callCount, lcTarget, bgPc, backgroundThread_, aborted, round>>
    /\ LcFrame

\* start() l.240-242: eventManager_->start();
LcStartEm(t) ==
    /\ LcCanStep
    /\ lcPc[t] = "start_em"
    /\ emRunning' = TRUE
    /\ emStarts' = emStarts + 1
    /\ lcPc' = [lcPc EXCEPT ![t] = "start_spawn"]
    /\ UNCHANGED <<running_, spawned, joined, emStops, published, callCount,
                   lcTarget, bgPc, backgroundThread_, aborted, round>>
    /\ LcFrame

\* start() l.245: backgroundThread_ = std::thread(&backgroundWorker, this);
\* the new thread runs before the assignment; assigning to a member that holds
\* a joinable thread calls std::terminate, and as the other caller's write of
\* the member is unordered with this one, the assignment can also overwrite it
LcStartSpawn(t, outcome) ==
    /\ LcCanStep
    /\ lcPc[t] = "start_spawn"
    /\ spawned < MaxCalls
    /\ spawned' = spawned + 1
    /\ bgPc' = [bgPc EXCEPT ![spawned + 1] = "check"]
    /\ IF backgroundThread_ = 0 \/ outcome = "overwrite"
       THEN /\ backgroundThread_' = spawned + 1
            /\ lcPc' = [lcPc EXCEPT ![t] = "start_publish"]
            /\ UNCHANGED aborted
       ELSE /\ aborted' = TRUE
            /\ UNCHANGED <<backgroundThread_, lcPc>>
    /\ UNCHANGED <<running_, joined, emRunning, emStarts, emStops, published,
                   callCount, lcTarget, round>>
    /\ LcFrame

\* start() l.248-249: publish SYSTEM_STARTED
LcStartPublish(t) ==
    /\ LcCanStep
    /\ lcPc[t] = "start_publish"
    /\ published' = publish("SYSTEM_STARTED")
    /\ lcPc' = [lcPc EXCEPT ![t] = "idle"]
    /\ UNCHANGED <<running_, spawned, joined, emRunning, emStarts, emStops,
                   callCount, lcTarget, bgPc, backgroundThread_, aborted, round>>
    /\ LcFrame

\* stop() l.255-257: if (!running_.load()) return;
LcStopCall(t) ==
    /\ LcCanStep
    /\ lcPc[t] = "idle"
    /\ callCount < MaxCalls
    /\ callCount' = callCount + 1
    /\ round' = RoundAtCall("stop")
    /\ lcPc' = [lcPc EXCEPT ![t] = IF running_ THEN "stop_store" ELSE "idle"]
    /\ UNCHANGED <<running_, spawned, joined, emRunning, emStarts, emStops,
                   published, lcTarget, bgPc, backgroundThread_, aborted>>
    /\ LcFrame

\* stop() l.259: running_.store(false);
LcStopStore(t) ==
    /\ LcCanStep
    /\ lcPc[t] = "stop_store"
    /\ running_' = FALSE
    /\ lcPc' = [lcPc EXCEPT ![t] = "stop_joinable"]
    /\ UNCHANGED <<spawned, joined, emRunning, emStarts, emStops, published,
                   callCount, lcTarget, bgPc, backgroundThread_, aborted, round>>
    /\ LcFrame

\* stop() l.262: if (backgroundThread_.joinable())
LcStopJoinable(t) ==
    /\ LcCanStep
    /\ lcPc[t] = "stop_joinable"
    /\ lcTarget' = [lcTarget EXCEPT ![t] = backgroundThread_]
    /\ lcPc' = [lcPc EXCEPT ![t] =
                   IF backgroundThread_ # 0 THEN "stop_join" ELSE "stop_em"]
    /\ UNCHANGED <<running_, spawned, joined, emRunning, emStarts, emStops,
                   published, callCount, bgPc, backgroundThread_, aborted, round>>
    /\ LcFrame

\* stop() l.263: backgroundThread_.join(); it returns once the thread has
\* returned. A join() of a thread the other caller has joined meanwhile, or
\* whose handle was overwritten, is unordered with that access: it returns as
\* if it had joined, or throws std::system_error out of stop()
LcStopJoin(t, outcome) ==
    /\ LcCanStep
    /\ lcPc[t] = "stop_join"
    /\ bgPc[lcTarget[t]] \in {"done", "joined"}
    /\ IF backgroundThread_ = lcTarget[t] /\ bgPc[lcTarget[t]] = "done"
       THEN /\ bgPc' = [bgPc EXCEPT ![lcTarget[t]] = "joined"]
            /\ backgroundThread_' = 0
            /\ joined' = joined + 1
            /\ lcPc' = [lcPc EXCEPT ![t] = "stop_em"]
       ELSE /\ bgPc' = [bgPc EXCEPT ![lcTarget[t]] = "joined"]
            /\ UNCHANGED backgroundThread_
            /\ IF outcome = "returns"
               THEN /\ joined' = joined + 1
                    /\ lcPc' = [lcPc EXCEPT ![t] = "stop_em"]
               ELSE /\ lcPc' = [lcPc EXCEPT ![t] = "idle"]
                    /\ UNCHANGED joined
    /\ UNCHANGED <<running_, spawned, emRunning, emStarts, emStops, published,
                   callCount, lcTarget, aborted, round>>
    /\ LcFrame

\* stop() l.267-269: eventManager_->stop();
LcStopEm(t) ==
    /\ LcCanStep
    /\ lcPc[t] = "stop_em"
    /\ emRunning' = FALSE
    /\ emStops' = emStops + 1
    /\ lcPc' = [lcPc EXCEPT ![t] = "stop_publish"]
    /\ UNCHANGED <<running_, spawned, joined, emStarts, published, callCount,
                   lcTarget, bgPc, backgroundThread_, aborted, round>>
    /\ LcFrame

\* stop() l.272-273: publish SYSTEM_STOPPED
LcStopPublish(t) ==
    /\ LcCanStep
    /\ lcPc[t] = "stop_publish"
    /\ published' = publish("SYSTEM_STOPPED")
    /\ lcPc' = [lcPc EXCEPT ![t] = "idle"]
    /\ UNCHANGED <<running_, spawned, joined, emRunning, emStarts, emStops,
                   callCount, lcTarget, bgPc, backgroundThread_, aborted, round>>
    /\ LcFrame

\* backgroundWorker of thread i: while (running_.load()), then one iteration
\* up to its sleep, or the return
BgCheck(i) ==
    /\ LcCanStep
    /\ bgPc[i] = "check"
    /\ bgPc' = [bgPc EXCEPT ![i] = IF running_ THEN "sleep" ELSE "done"]
    /\ UNCHANGED <<running_, spawned, joined, emRunning, emStarts, emStops,
                   published, callCount, lcPc, lcTarget, backgroundThread_,
                   aborted, round>>
    /\ LcFrame

\* its sleep_for(5 minutes) elapses
BgWake(i) ==
    /\ LcCanStep
    /\ bgPc[i] = "sleep"
    /\ bgPc' = [bgPc EXCEPT ![i] = "check"]
    /\ UNCHANGED <<running_, spawned, joined, emRunning, emStarts, emStops,
                   published, callCount, lcPc, lcTarget, backgroundThread_,
                   aborted, round>>
    /\ LcFrame

LifecycleCallersNext ==
    \/ \E t \in LifecycleCallers :
          \/ LcStartCall(t)
          \/ LcStartStore(t)
          \/ LcStartEm(t)
          \/ \E outcome \in {"terminate", "overwrite"} : LcStartSpawn(t, outcome)
          \/ LcStartPublish(t)
          \/ LcStopCall(t)
          \/ LcStopStore(t)
          \/ LcStopJoinable(t)
          \/ \E outcome \in {"returns", "throws"} : LcStopJoin(t, outcome)
          \/ LcStopEm(t)
          \/ LcStopPublish(t)
    \/ \E i \in BgThreads : BgCheck(i) \/ BgWake(i)

SpecLifecycle == InitOrch /\ [][LifecycleCallersNext]_vars

----------------------------------------------------------------------------
(* The query cache (LRUCache<std::string, MemoryItem>) and the base store's lookup *)

\* the entry of key k, or none
CacheFind(cache, k) == { i \in 1..Len(cache) : cache[i].key = k }

\* the cache without key k
CacheWithout(cache, k) ==
    SelectIdx(cache, Len(cache), { i \in 1..Len(cache) : cache[i].key # k })

\* LRUCache::get on a hit: the entry becomes the most recently used
CacheTouch(cache, k) ==
    <<cache[CHOOSE i \in CacheFind(cache, k) : TRUE]>> \o CacheWithout(cache, k)

\* LRUCache::put: insert as most recently used, evict beyond the capacity
CachePut(cache, cap, k, v) ==
    LET all == <<[key |-> k, val |-> v]>> \o CacheWithout(cache, k)
    IN  SubSeq(all, 1, Min(Len(all), cap))

\* MemoryManager::getRelatedMemories(query, n): up to n stored items, chosen
\* and ordered by a heuristic this model leaves open
RelatedResults(n) ==
    LET k == Min(n, Len(store))
    IN  UNION { { [i \in 1..m |-> store[f[i]]] :
                    f \in { g \in [1..m -> 1..Len(store)] :
                              \A a, b \in 1..m : a # b => g[a] # g[b] } } :
                m \in 0..k }

\* semanticSearch_ is never constructed (its initialisation is commented out)
semanticSearchConfigured == FALSE

----------------------------------------------------------------------------
(* AdvancedMemoryManager::searchMemories, per caller *)

\* the cache as searchMemories would leave it if it cached nothing
cacheAfterSearchNoPut(cache, cap, q, results) == cache

\* if (!results.empty()) memoryCache_->put(query, results[0]);
cacheAfterSearch(cache, cap, q, results) ==
    IF results # <<>> THEN CachePut(cache, cap, q, results[1]) ELSE cache

\* a counter as operator++ would leave it if the increment were lost
IncrementLost(c) == c

\* std::atomic<size_t>::operator++: one indivisible read-modify-write
Increment(c) == c + 1

\* startTime, memoryCache_->get(query); a hit counts and returns {*cached},
\* a miss counts and goes on to the search
SearchLookup(t, q, n) ==
    /\ orchPc = "live"
    /\ searchPc[t] = "idle"
    /\ searchCalls < MaxSearches
    /\ searchCalls' = searchCalls + 1
    /\ searchQ' = [searchQ EXCEPT ![t] = q]
    /\ searchMax' = [searchMax EXCEPT ![t] = n]
    /\ LET others == { u \in Searchers \ {t} : searchPc[u] # "idle" }
       IN  /\ searchAlone' = [u \in Searchers |->
                                IF u = t THEN others = {}
                                ELSE IF u \in others THEN FALSE ELSE searchAlone[u]]
           /\ searchBasis' = [u \in Searchers |->
                                IF u = t THEN (IF others = {} THEN prevSearch ELSE NoCall)
                                ELSE IF u \in others THEN NoCall ELSE searchBasis[u]]
    /\ searchInvoked' = [searchInvoked EXCEPT ![t] = FALSE]
    /\ IF CacheFind(memoryCache_, q) # {}
       THEN /\ cacheHits_' = Increment(cacheHits_)
            /\ memoryCache_' = CacheTouch(memoryCache_, q)
            /\ searchRes' = [searchRes EXCEPT ![t] = <<memoryCache_'[1].val>>]
            /\ searchHit' = [searchHit EXCEPT ![t] = TRUE]
            /\ searchPc' = [searchPc EXCEPT ![t] = "ret"]
            /\ UNCHANGED cacheMisses_
       ELSE /\ cacheMisses_' = Increment(cacheMisses_)
            /\ searchRes' = [searchRes EXCEPT ![t] = <<>>]
            /\ searchHit' = [searchHit EXCEPT ![t] = FALSE]
            /\ searchPc' = [searchPc EXCEPT ![t] = "search"]
            /\ UNCHANGED <<cacheHits_, memoryCache_>>
    /\ UNCHANGED <<cacheSize_, totalSearches_, totalSearchTime_, prevSearch,
                   statsPc, statsFirst, statsAccess, stats>>
    /\ UNCHANGED <<engineVars, orchVars, batchVars, lifeVars>>

\* the fallback getRelatedMemories (semanticSearch_ is null), then the
\* latency added to totalSearchTime_ and totalSearches_++
SearchFallback(t, results, latency) ==
    /\ searchPc[t] = "search"
    /\ ~semanticSearchConfigured
    /\ results \in RelatedResults(searchMax[t])
    /\ searchRes' = [searchRes EXCEPT ![t] = results]
    /\ searchInvoked' = [searchInvoked EXCEPT ![t] = TRUE]
    /\ totalSearchTime_' = totalSearchTime_ + latency
    /\ totalSearches_' = Increment(totalSearches_)
    /\ searchPc' = [searchPc EXCEPT ![t] = "put"]
    /\ UNCHANGED <<memoryCache_, cacheSize_, cacheHits_, cacheMisses_, searchQ,
                   searchMax, searchHit, searchAlone, searchBasis, prevSearch,
                   searchCalls, statsPc, statsFirst, statsAccess, stats>>
    /\ UNCHANGED <<engineVars, orchVars, batchVars, lifeVars>>

\* the result is cached, MEMORY_SEARCHED is published
SearchPut(t) ==
    /\ searchPc[t] = "put"
    /\ memoryCache_' = cacheAfterSearch(memoryCache_, cacheSize_, searchQ[t], searchRes[t])
    /\ published' = publish("MEMORY_SEARCHED")
    /\ searchPc' = [searchPc EXCEPT ![t] = "ret"]
    /\ UNCHANGED <<cacheSize_, cacheHits_, cacheMisses_, totalSearches_,
                   totalSearchTime_, searchQ, searchMax, searchRes, searchHit,
                   searchInvoked, searchAlone, searchBasis, prevSearch,
                   searchCalls, statsPc, statsFirst, statsAccess, stats>>
    /\ UNCHANGED <<engineVars, orchCore, batchVars, lifeVars>>

\* searchMemories has returned to its caller; its locals are gone
SearchReturn(t) ==
    /\ searchPc[t] = "ret"
    /\ searchPc' = [searchPc EXCEPT ![t] = "idle"]
    /\ prevSearch' = IF searchAlone[t]
                     THEN [q |-> searchQ[t], res |-> searchRes[t]] ELSE NoCall
    /\ searchQ' = [searchQ EXCEPT ![t] = ""]
    /\ searchMax' = [searchMax EXCEPT ![t] = 0]
    /\ searchRes' = [searchRes EXCEPT ![t] = <<>>]
    /\ searchHit' = [searchHit EXCEPT ![t] = FALSE]
    /\ searchInvoked' = [searchInvoked EXCEPT ![t] = FALSE]
    /\ searchAlone' = [searchAlone EXCEPT ![t] = FALSE]
    /\ searchBasis' = [searchBasis EXCEPT ![t] = NoCall]
    /\ UNCHANGED <<memoryCache_, cacheSize_, cacheHits_, cacheMisses_,
                   totalSearches_, totalSearchTime_, searchCalls, statsPc,
                   statsFirst, statsAccess, stats>>
    /\ UNCHANGED <<engineVars, orchVars, batchVars, lifeVars>>

\* setCacheSize(size): the cache is replaced by an empty one
SetCacheSize(size) ==
    /\ orchPc = "live"
    /\ cacheSize_ # size
    /\ cacheSize_' = size
    /\ memoryCache_' = <<>>
    /\ prevSearch' = NoCall
    /\ searchBasis' = [u \in Searchers |-> NoCall]
    /\ searchAlone' = [u \in Searchers |-> FALSE]
    /\ UNCHANGED <<cacheHits_, cacheMisses_, totalSearches_, totalSearchTime_,
                   searchPc, searchQ, searchMax, searchRes, searchHit,
                   searchInvoked, searchCalls, statsPc, statsFirst,
                   statsAccess, stats>>
    /\ UNCHANGED <<engineVars, orchVars, batchVars, lifeVars>>

----------------------------------------------------------------------------
(* AdvancedMemoryManager::getSystemStatistics, one caller *)

\* totalMemories, totalSearches, averageSearchTime; then the first load of
\* cacheHits_.load() + cacheMisses_.load(), whose operand order is open
StatsBegin(first) ==
    /\ orchPc = "live"
    /\ statsPc = "idle"
    /\ stats' = [totalMemories |-> Len(store),
                 totalSearches |-> totalSearches_,
                 averageSearchTime |-> IF totalSearches_ > 0
                                       THEN totalSearchTime_ \div totalSearches_
                                       ELSE 0,
                 cacheHitRate |-> 0]
    /\ statsFirst' = first
    /\ statsAccess' = IF first = "hits" THEN cacheHits_ ELSE cacheMisses_
    /\ statsPc' = "second"
    /\ UNCHANGED <<memoryCache_, cacheSize_, cacheHits_, cacheMisses_,
                   totalSearches_, totalSearchTime_, searchPc, searchQ,
                   searchMax, searchRes, searchHit, searchInvoked, searchAlone,
                   searchBasis, prevSearch, searchCalls>>
    /\ UNCHANGED <<engineVars, orchVars, batchVars, lifeVars>>

\* the second load of the sum: totalCacheAccess
StatsSecondLoad ==
    /\ statsPc = "second"
    /\ statsAccess' = statsAccess +
                      (IF statsFirst = "hits" THEN cacheMisses_ ELSE cacheHits_)
    /\ statsPc' = "rate"
    /\ UNCHANGED <<memoryCache_, cacheSize_, cacheHits_, cacheMisses_,
                   totalSearches_, totalSearchTime_, searchPc, searchQ,
                   searchMax, searchRes, searchHit, searchInvoked, searchAlone,
                   searchBasis, prevSearch, searchCalls, statsFirst, stats>>
    /\ UNCHANGED <<engineVars, orchVars, batchVars, lifeVars>>

\* cacheHitRate = totalCacheAccess > 0 ? cacheHits_.load() * 100 / totalCacheAccess : 0
StatsRate ==
    /\ statsPc = "rate"
    /\ stats' = [stats EXCEPT !.cacheHitRate =
                    IF statsAccess > 0 THEN (cacheHits_ * 100) \div statsAccess ELSE 0]
    /\ statsPc' = "ret"
    /\ UNCHANGED <<memoryCache_, cacheSize_, cacheHits_, cacheMisses_,
                   totalSearches_, totalSearchTime_, searchPc, searchQ,
                   searchMax, searchRes, searchHit, searchInvoked, searchAlone,
                   searchBasis, prevSearch, searchCalls, statsFirst,
                   statsAccess>>
    /\ UNCHANGED <<engineVars, orchVars, batchVars, lifeVars>>

\* the snapshot is returned to the caller
StatsReturn ==
    /\ statsPc = "ret"
    /\ statsPc' = "idle"
    /\ statsFirst' = "none"
    /\ statsAccess' = 0
    /\ stats' = NoStats
    /\ UNCHANGED <<memoryCache_, cacheSize_, cacheHits_, cacheMisses_,
                   totalSearches_, totalSearchTime_, searchPc, searchQ,
                   searchMax, searchRes, searchHit, searchInvoked, searchAlone,
                   searchBasis, prevSearch, searchCalls>>
    /\ UNCHANGED <<engineVars, orchVars, batchVars, lifeVars>>

----------------------------------------------------------------------------
(* Search, cache and statistics over a store filled through addMemory *)

SearchNext ==
    \/ \E t \in MainSearchers, q \in Queries, n \in ResultLimits : SearchLookup(t, q, n)
    \/ \E t \in MainSearchers, latency \in Latencies :
          \E results \in RelatedResults(searchMax[t]) : SearchFallback(t, results, latency)
    \/ \E t \in MainSearchers : SearchPut(t)
    \/ \E t \in MainSearchers : SearchReturn(t)
    \/ \E size \in CacheSizes : SetCacheSize(size)

StatsNext ==
    \/ \E first \in {"hits", "misses"} : StatsBegin(first)
    \/ StatsSecondLoad
    \/ StatsRate
    \/ StatsReturn

SearchSpecNext ==
    \/ Start
    \/ \E in \in OrchInputs : OrchAddMemoryCall(in)
    \/ OrchAddNext
    \/ AddPush
    \/ AddSignal
    \/ OrchAddFinish
    \/ SearchNext

SpecSearch == InitOrch /\ [][SearchSpecNext]_vars

----------------------------------------------------------------------------
(* Statistics read while searches run *)

\* the one memory added and the one query searched while statistics are read
StatsInput == [content |-> <<"hello">>, type |-> "Short", category |-> "Other"]

StatsSpecNext ==
    \/ Start
    \/ OrchAddMemoryCall(StatsInput)
    \/ OrchAddNext
    \/ AddPush
    \/ AddSignal
    \/ OrchAddFinish
    \/ \E t \in MainSearchers : SearchLookup(t, "q1", 1)
    \/ \E t \in MainSearchers :
          \E results \in RelatedResults(searchMax[t]) : SearchFallback(t, results, 1)
    \/ \E t \in MainSearchers : SearchPut(t)
    \/ \E t \in MainSearchers : SearchReturn(t)
    \/ StatsNext

SpecStats == InitOrch /\ [][StatsSpecNext]_vars

----------------------------------------------------------------------------
(* searchMemories called from two threads at once *)

CountersSpecNext ==
    \/ Start
    \/ OrchAddMemoryCall(StatsInput)
    \/ OrchAddNext
    \/ AddPush
    \/ AddSignal
    \/ OrchAddFinish
    \/ \E t \in Searchers, q \in Queries : SearchLookup(t, q, 1)
    \/ \E t \in Searchers :
          \E results \in RelatedResults(searchMax[t]) : SearchFallback(t, results, 1)
    \/ \E t \in Searchers : SearchPut(t)
    \/ \E t \in Searchers : SearchReturn(t)

SpecCounters == InitOrch /\ [][CountersSpecNext]_vars

----------------------------------------------------------------------------
(* AdvancedMemoryManager::searchMemoriesBatch, one caller *)

\* the words of the contents, in the order std::string compares them
Vocabulary == <<"hello", "jinzhan", "xiangmu">>

WordRank(w) == CHOOSE i \in 1..Len(Vocabulary) : Vocabulary[i] = w

RECURSIVE ContentLess(_, _)
\* a.content < b.content: the lexicographic order of std::string
ContentLess(a, b) ==
    IF b = <<>> THEN FALSE
    ELSE IF a = <<>> THEN TRUE
    ELSE IF Head(a) = Head(b) THEN ContentLess(Tail(a), Tail(b))
    ELSE WordRank(Head(a)) < WordRank(Head(b))

\* no element is followed by one of lesser content
SortedByContent(s) ==
    \A i \in 1..(Len(s) - 1) : ~ContentLess(s[i + 1].content, s[i].content)

\* the positions of s that hold an item of least content
LeastContent(s) ==
    { k \in 1..Len(s) : \A j \in 1..Len(s) : ~ContentLess(s[j].content, s[k].content) }

RECURSIVE SortResults(_)
\* std::sort by content: the rearrangements of s that are in content order;
\* which of two items of equal content comes first is not determined
SortResults(s) ==
    IF s = <<>> THEN { <<>> }
    ELSE UNION { { <<s[k]>> \o r :
                     r \in SortResults(SelectIdx(s, Len(s), (1..Len(s)) \ {k})) } :
                 k \in LeastContent(s) }

\* std::unique as it would be if it removed nothing
UniqueKeepsAll(s) == s

\* std::unique by content, then erase: the first of every run of equal contents
Unique(s) ==
    SelectIdx(s, Len(s),
              { i \in 1..Len(s) : i = 1 \/ s[i].content # s[i - 1].content })

\* the thread that calls searchMemoriesBatch
BatchCaller == "s1"

\* query lists handed to searchMemoriesBatch
BatchQueries == { <<"q1", "q1", "q2">>, <<"q2", "q1">> }

\* searchMemoriesBatch(queries, maxResults) is called
BatchCall(queries, n) ==
    /\ orchPc = "live"
    /\ batchPc = "idle"
    /\ searchPc[BatchCaller] = "idle"
    /\ searchCalls + Len(queries) <= MaxSearches
    /\ batchQueue' = queries
    /\ batchMax' = n
    /\ batchAll' = <<>>
    /\ batchRes' = <<>>
    /\ batchPc' = "loop"
    /\ UNCHANGED <<engineVars, orchVars, searchVars, lifeVars>>

\* auto results = searchMemories(query, maxResults), the call
BatchSearch ==
    /\ batchPc = "loop"
    /\ batchQueue # <<>>
    /\ SearchLookup(BatchCaller, Head(batchQueue), batchMax)

\* allResults.insert(allResults.end(), results.begin(), results.end())
BatchCollect ==
    /\ batchPc = "loop"
    /\ searchPc[BatchCaller] = "ret"
    /\ batchAll' = batchAll \o searchRes[BatchCaller]
    /\ batchQueue' = Tail(batchQueue)
    /\ batchPc' = "collected"
    /\ UNCHANGED <<batchMax, batchRes>>
    /\ UNCHANGED <<engineVars, orchVars, searchVars, lifeVars>>

\* results goes out of scope at the end of the loop body
BatchDiscard ==
    /\ batchPc = "collected"
    /\ SearchReturn(BatchCaller)

\* the for loop goes on to its next query
BatchLoop ==
    /\ batchPc = "collected"
    /\ searchPc[BatchCaller] = "idle"
    /\ batchPc' = "loop"
    /\ UNCHANGED <<batchQueue, batchMax, batchAll, batchRes>>
    /\ UNCHANGED <<engineVars, orchVars, searchVars, lifeVars>>

\* std::sort, std::unique, erase
BatchFinish(sorted) ==
    /\ batchPc = "loop"
    /\ batchQueue = <<>>
    /\ searchPc[BatchCaller] = "idle"
    /\ sorted \in SortResults(batchAll)
    /\ batchRes' = Unique(sorted)
    /\ batchPc' = "ret"
    /\ UNCHANGED <<batchQueue, batchMax, batchAll>>
    /\ UNCHANGED <<engineVars, orchVars, searchVars, lifeVars>>

\* searchMemoriesBatch has returned to its caller
BatchReturn ==
    /\ batchPc = "ret"
    /\ batchPc' = "idle"
    /\ batchMax' = 0
    /\ batchAll' = <<>>
    /\ batchRes' = <<>>
    /\ UNCHANGED batchQueue
    /\ UNCHANGED <<engineVars, orchVars, searchVars, lifeVars>>

BatchSearchNext ==
    \/ \E queries \in BatchQueries, n \in ResultLimits : BatchCall(queries, n)
    \/ BatchSearch
    \/ \E results \in RelatedResults(searchMax[BatchCaller]) :
          SearchFallback(BatchCaller, results, 1)
    \/ SearchPut(BatchCaller)
    \/ BatchCollect
    \/ BatchDiscard
    \/ BatchLoop
    \/ \E sorted \in SortResults(batchAll) : BatchFinish(sorted)
    \/ BatchReturn

\* batch searches over a store filled through addMemory
BatchSpecNext ==
    \/ Start
    \/ \E in \in OrchInputs : OrchAddMemoryCall(in)
    \/ OrchAddNext
    \/ AddPush
    \/ AddSignal
    \/ OrchAddFinish
    \/ BatchSearchNext

SpecBatch == InitOrch /\ [][BatchSpecNext]_vars

----------------------------------------------------------------------------
(* Derived views used by the properties *)

\* ids whose line is in some destination file
WrittenIds == UNION { Ids(files[t]) : t \in Types }

\* ids of the items of the base store held by the file of their own type
InOwnFile(item) == item.id \in Ids(files[item.type])

\* a sequence of lines holds no id twice
NoRepeat(s) == \A i, j \in 1..Len(s) : i # j => s[i].id # s[j].id

\* ids appear in the order the items were created
Ascending(s) == \A i, j \in 1..Len(s) : i < j => s[i].id < s[j].id

----------------------------------------------------------------------------
(* C1..C10 *)

\* C1 (as claimed): once the engine's shutdown sequence has completed, the
\* pending queue is empty and, when no persistence failure occurred, every
\* added item is in the destination file of its type.
C1_DurableShutdown ==
    dtorPc = "done" =>
        /\ pendingWrites = <<>>
        /\ (failures = 0 => \A i \in 1..Len(store) : InOwnFile(store[i]))

\* C2 (as claimed): when save() returns and no addMemory overlapped it, the
\* pending queue is empty and, when no persistence failure occurred, every
\* item queued at the call is in a destination file.
C2_SaveDrainsAll ==
    (saverPc = "save_ret" /\ ~saverOverlap) =>
        /\ pendingWrites = <<>>
        /\ (failures = 0 => saverSnap \subseteq WrittenIds)

\* C5 (as claimed): in every destination file the lines are in the order in
\* which their items were enqueued.
C5_FifoFiles == \A t \in Types : Ascending(files[t])

\* C10: no item is written twice (neither twice to one file nor to two
\* files), an item still queued or held in a drained batch is in no file, and
\* a dropped item is neither written, nor queued, nor held in a batch again.
C10_AtMostOnce ==
    /\ \A t \in Types : NoRepeat(files[t])
    /\ \A t, u \in Types : t # u => Ids(files[t]) \cap Ids(files[u]) = {}
    /\ NoRepeat(pendingWrites \o workerBatch \o saverBatch)
    /\ WrittenIds \cap Ids(pendingWrites \o workerBatch \o saverBatch) = {}
    /\ dropped \cap (WrittenIds \cup Ids(pendingWrites \o workerBatch \o saverBatch)) = {}

\* C10 witness: the worker and save() have both persisted batches, one batch
\* met a failure and lost an item, and nothing is left in flight.
C10_Witness ==
    /\ dropped # {}
    /\ Cardinality(WrittenIds) >= 2
    /\ pendingWrites = <<>> /\ workerBatch = <<>> /\ saverBatch = <<>>
    /\ nextId > MaxAdds

\* what a lifecycle call can be observed to change
lifecycleObs == <<running_, maintPc, spawned, joined, emRunning, emStarts,
                  emStops, published>>

\* stop() has returned to its caller
StopReturned == lastCall = "stop" /\ callerPc = "idle"

MutationApiStep ==
    \/ OrchAddNext
    \/ \E c \in Contents, w \in WeightInputs : UpdateMemoryWeight(c, w)
    \/ \E c \in Contents : RecordMemoryAccess(c)
    \/ \E E \in SUBSET Contents : CleanupExpiredMemories(E)

\* C4 (as claimed): while Stopped, a step of addMemory, addMemoriesBatch,
\* updateMemoryWeight, recordMemoryAccess or cleanupExpiredMemories changes
\* neither the base store, nor the pending queue, nor the weight
\* collaborator's records, and publishes no event.
C4_StoppedApisRefuse ==
    [][(~running_ /\ MutationApiStep) =>
          UNCHANGED <<store, pendingWrites, weights, published>>]_vars

\* C9: after start() exactly one maintenance thread exists; a start() that
\* follows a start(), and a stop() that follows a stop(), changes nothing a
\* lifecycle call can change: no thread spawned or joined, the event manager
\* not started or stopped again, no event published.
C9_IdempotentLifecycle ==
    /\ [](running_ => spawned = joined + 1 /\ maintPc # "none")
    /\ [][(lastCall = "start" /\ Start) => UNCHANGED lifecycleObs]_vars
    /\ [][(StopReturned /\ StopCall) =>
             (UNCHANGED lifecycleObs /\ callerPc' = "idle")]_vars

\* C9 witness: start() has just been called twice in a row.
C9_Witness ==
    /\ lastCall = "start" /\ repeated /\ ~lastEffective
    /\ running_
    /\ spawned = 1 /\ emStarts = 1
    /\ published["SYSTEM_STARTED"] = 1

\* C6 (as claimed): the cacheHitRate of every snapshot getSystemStatistics
\* returns lies in 0..100.
C6_HitRateInRange == statsPc = "ret" => stats.cacheHitRate \in 0..100

\* every searchMemories caller is between calls
SearchersIdle == \A t \in Searchers : searchPc[t] = "idle"

\* C7 (as claimed): once every searchMemories call has returned,
\* totalSearches equals the number of calls made, which is cacheHits +
\* cacheMisses.
C7_EverySearchCounted ==
    SearchersIdle =>
        /\ totalSearches_ = searchCalls
        /\ totalSearches_ = cacheHits_ + cacheMisses_

C11_QueueBounded == Len(pendingWrites) <= BATCH_SIZE

\* the item with identity i is in the batch the worker has drained
InWorkerBatch(i) == \E k \in 1..Len(workerBatch) : workerBatch[k].id = i

AdderReadsSize == adderPc = "notify"

\* the worker holds pendingMutex and is popping items in getPendingBatch
WorkerPopping == workerPc = "locked" /\ ~shouldStop /\ pendingWrites # <<>>

\* C13 (as claimed): no thread reads the pending queue while another thread is
\* modifying it: addMemory is never at its size() read while the worker is
\* popping the queue.
C13_QueueAccessLocked == ~(AdderReadsSize /\ WorkerPopping)

\* addMemory is at its lock_guard, waiting for pendingMutex
AdderBlocked == adderPc = "push" /\ pendingMutex # "free"

\* the holder of pendingMutex is inside saveBatch
HolderWritesFiles == pendingMutex = "saver" /\ saverPc = "flush_write"

\* C14 (as claimed): addMemory is never blocked on the queue mutex while the
\* thread that holds it is writing a batch to the files.
C14_AddNeverWaitsForIo == ~(AdderBlocked /\ HolderWritesFiles)

\* the contents of the items of a list
ContentsOf(s) == { s[i].content : i \in 1..Len(s) }

\* C15: the list searchMemoriesBatch returns holds no two items of the same
\* content, is in ascending content order, and holds exactly the contents
\* that its per-query searchMemories calls returned.
C15_BatchDedup ==
    batchPc = "ret" =>
        /\ \A i, j \in 1..Len(batchRes) :
               i # j => batchRes[i].content # batchRes[j].content
        /\ \A i, j \in 1..Len(batchRes) :
               i < j => ContentLess(batchRes[i].content, batchRes[j].content)
        /\ ContentsOf(batchRes) = ContentsOf(batchAll)

\* C15 witness: a repeated query and a second query returned four items of
\* two contents, out of content order; two items are returned.
C15_Witness ==
    /\ batchPc = "ret"
    /\ Len(batchAll) >= 4
    /\ Len(batchRes) = 2
    /\ ContentLess(batchAll[2].content, batchAll[1].content)
    /\ cacheHits_ >= 1

\* searchMemories calls that have counted a miss and not yet reached
\* totalSearches_++
BetweenMissAndCount == { t \in Searchers : searchPc[t] = "search" }

\* C16: under every interleaving of searchMemories calls from two threads,
\* cacheHits + cacheMisses is the number of calls that have passed the cache
\* lookup, every call that has passed totalSearches_++ is counted in
\* totalSearches, and none of the three counters ever decreases.
C16_CountersSafe ==
    /\ [](cacheHits_ + cacheMisses_ = searchCalls)
    /\ [](totalSearches_ + Cardinality(BetweenMissAndCount) = cacheMisses_)
    /\ [][/\ cacheHits_' >= cacheHits_
          /\ cacheMisses_' >= cacheMisses_
          /\ totalSearches_' >= totalSearches_]_vars

\* C16 witness: one thread has just been answered from the cache while the
\* other is past a miss and before totalSearches_++.
C16_Witness ==
    /\ searchPc["s1"] = "ret" /\ searchHit["s1"]
    /\ searchPc["s2"] = "search"
    /\ cacheHits_ = 1
    /\ cacheMisses_ = 2
    /\ totalSearches_ = 1

\* a saveBatch call is in progress, in the worker or in flushPendingWrites
PersistenceInProgress == workerPc = "saving" \/ saverPc = "flush_write"

\* C17 (as claimed): isSaving() is true while a batch persistence call is in
\* progress, whoever issued it, and false when none is (the worker's store of
\* false directly after its call aside).
C17_IsSavingTracksIo ==
    /\ PersistenceInProgress => isSavingFlag
    /\ isSavingFlag => (PersistenceInProgress \/ workerPc = "saved")

\* C18 (as claimed): the maintenance loop ends only once running_ is clear,
\* and every iteration, one that raised an exception included, is followed by
\* the sleep before the next one starts.
C18_MaintenanceResilient ==
    /\ [][(maintPc # "done" /\ maintPc' = "done") => ~running_]_vars
    /\ [][(maintPc = "iter" /\ maintPc' # "iter") => maintPc' = "sleep"]_vars

\* what a saveBatch call can meet when no exception is raised: every stream
\* good, or the stream of one type failed
StreamOutcomes(batch) ==
    { [ok |-> Types \ S, at |-> Len(batch)] : S \in { {} } \cup { {t} : t \in Types } }

\* after the step, every item of the batch whose stream was good is in the
\* file of its type and in no other
WrittenWhereGood(batch, io) ==
    \A i \in 1..Len(batch) :
        batch[i].type \in io.ok =>
            \A t \in Types : (batch[i].id \in Ids(files'[t])) <=> (t = batch[i].type)

\* C19: a file holds only lines of items of its own type, and a saveBatch call
\* in which the stream of one type has failed (no exception is raised: the
\* stream swallows its lines) still writes every item of the other two types
\* to the file of its type; this for the worker's call, for the call made by
\* save() and for the destructor's.
C19_DestinationsIndependent ==
    /\ [](\A i \in 1..Len(store) : \A t \in Types :
              store[i].id \in Ids(files[t]) => t = store[i].type)
    /\ [][\A io \in StreamOutcomes(workerBatch) :
              WorkerSaveBatch(io) => WrittenWhereGood(workerBatch, io)]_vars
    /\ [][\A io \in StreamOutcomes(saverBatch) :
              FlushWrite(io) => WrittenWhereGood(saverBatch, io)]_vars
    /\ [][\A io \in StreamOutcomes(flushDrain(pendingWrites).batch) :
              DtorFlush(io) =>
                  WrittenWhereGood(flushDrain(pendingWrites).batch, io)]_vars

\* C19 witness: save() drained items 1 and 2, of different types, into one
\* batch; the stream of item 1's type failed and item 2 is in its file.
C19_Witness ==
    /\ saverPc = "base_save"
    /\ saverSnap = {1, 2}
    /\ store[1].type # store[2].type
    /\ dropped = {1}
    /\ failures = 1
    /\ InOwnFile(store[2])

\* ids of the items whose addMemory call has enqueued them
AcceptedIds ==
    Ids(store) \ (IF adderPc = "push" THEN {adderItem.id} ELSE {})

\* where an item can be once it is enqueued
ItemPlaces ==
    [queue   |-> Ids(pendingWrites),
     batch   |-> Ids(workerBatch) \cup Ids(saverBatch),
     file    |-> WrittenIds,
     dropped |-> dropped]

\* ids that left the pending queue in the step
LeftQueue == Ids(pendingWrites) \ Ids(pendingWrites')

\* C20: every item that addMemory has enqueued is in the base store and in
\* exactly one of the pending queue, a drained batch, a destination file and
\* the dropped items; these places hold nothing else and hold no item twice;
\* and an item leaves the pending queue only into a drained batch (the
\* destructor's flush drains and persists its batch in one step).
C20_ItemConservation ==
    /\ [](\A id \in AcceptedIds :
              Cardinality({ p \in DOMAIN ItemPlaces : id \in ItemPlaces[p] }) = 1)
    /\ [](\A p \in DOMAIN ItemPlaces : ItemPlaces[p] \subseteq AcceptedIds)
    /\ [](NoRepeat(store) /\ NoRepeat(pendingWrites \o workerBatch \o saverBatch))
    /\ [][LeftQueue \subseteq
            (Ids(workerBatch') \cup Ids(saverBatch')
               \cup (IF dtorPc = "flush" THEN WrittenIds' \cup dropped' ELSE {}))]_vars

\* C20 witness: three enqueued items are in three different places at once.
C20_Witness ==
    /\ adderPc = "idle"
    /\ Cardinality(dropped) = 1
    /\ Len(workerBatch) = 1
    /\ Len(pendingWrites) = 1

\* a round of calls of op, all of them begun while the orchestrator was in
\* state from or while another call of the same round was in flight
CleanRound(op, from) == round.clean /\ round.op = op /\ round.from = from

\* C21: calls of start() that overlap, the first made in the Stopped state,
\* spawn at most one maintenance thread and publish at most one
\* system-started event, exactly one once they have all returned; calls of
\* stop() that overlap, the first made in the Running state, join the
\* maintenance thread at most once and publish at most one system-stopped
\* event, exactly one once they have all returned.
C21_TransitionTakenOnce ==
    /\ CleanRound("start", "Stopped") =>
          /\ spawned - round.spawnedAt <= 1
          /\ published["SYSTEM_STARTED"] - round.startedAt <= 1
          /\ (AllIdle /\ ~aborted) =>
                published["SYSTEM_STARTED"] - round.startedAt = 1
    /\ CleanRound("stop", "Running") =>
          /\ joined - round.joinedAt <= 1
          /\ published["SYSTEM_STOPPED"] - round.stoppedAt <= 1
          /\ (AllIdle /\ ~aborted) =>
                published["SYSTEM_STOPPED"] - round.stoppedAt = 1

====
